---- MODULE Spec2Model ----
(***************************************************************************)
(* A model of gofr's circuit breaker (pkg/gofr/service/circuit_breaker.go) *)
(* and of its remote log-level poller (logging, remote logger).            *)
(*                                                                         *)
(* The breaker is modelled at the granularity of its accesses to the       *)
(* shared fields state, failureCount and lastChecked: resetCircuit is      *)
(* called without cb.mu from tryCircuitRecovery and from the goroutine the *)
(* health loop starts, so its two writes are two steps that interleave     *)
(* with the steps of the caller holding cb.mu.                             *)
(***************************************************************************)
EXTENDS Integers, Sequences, FiniteSets, TLC

\* ------------------------------------------------------------------ bounds
\* thresholds -1 .. MaxThreshold are configured (Threshold is an unvalidated int)
MaxThreshold == 2
\* goroutines of the health loop that are followed at once: a tick that would
\* start one more is processed without its goroutine being followed
MaxProbes == 1
\* failureCount is followed up to threshold + MaxOver (lost updates of the
\* unlocked resetCircuit let it grow without limit)
MaxOver == 2

\* -------------------------------------------------------- program constants
ClosedState == 0
OpenState == 1
\* cb.interval, in clock steps (time.NewTicker needs it positive)
interval == 1

Nil == "nil"
ErrCircuitOpen == "ErrCircuitOpen"
ErrUnexpectedCircuitBreakerResultType == "ErrUnexpectedCircuitBreakerResultType"
\* the error of the wrapped HTTP capability
ErrTransport == "ErrTransport"
\* a response of the wrapped HTTP capability
Response == "response"
\* a nil *http.Response stored in an interface{}: not the nil interface
NilResponse == "(*http.Response)(nil)"

\* foreground goroutines calling the breaker
Callers == {"c1", "c2"}
NoOne == "free"

\* the ten verb methods of the breaker
WithHeadersMethods ==
    {"GetWithHeaders", "PostWithHeaders", "PatchWithHeaders", "PutWithHeaders",
     "DeleteWithHeaders"}
PlainMethods == {"Get", "Post", "Patch", "Put", "Delete"}
Methods == WithHeadersMethods \cup PlainMethods

Thresholds == (-1) .. MaxThreshold

VARIABLES
    \* CircuitBreaker fields
    state, failureCount, threshold, mu,
    \* time.Since(cb.lastChecked), saturated at interval + 1
    sinceChecked,
    \* startHealthChecks: "wait" (on ticker.C) or "isOpen" (tick received)
    loopPc,
    \* goroutines of the health loop: in healthCheck, and between the two
    \* writes of resetCircuit
    nProbing, nResetMid,
    \* per caller: position in doRequest, the method called with its arguments,
    \* and what the call did so far
    pc, call, obs,
    \* the operation that completed in the last step, with what it returned
    returned,
    \* the status the health probe of the last step reported
    probed,
    \* locals of the goroutine inside executeWithCircuitBreaker (one at a time)
    tmp, fres, retval, fwd,
    \* whether a write without cb.mu happened while cb.mu was held
    raced,
    \* remoteLogger fields, and the level of the Logger it embeds
    remoteURL, levelFetchInterval, currentLevel, loggerLevel,
    \* UpdateLogLevel: "off" (never started), "wait" (on ticker.C), "fetched",
    \* "applied", "logged"; its locals newLevel and err
    pollPc, newLevel, fetchErr,
    \* the current (or last) tick of UpdateLogLevel: what was fetched, the levels
    \* before it, the transition lines it logged, whether it is complete
    tick,
    \* the level fetched by the last complete successful tick before this one
    prevFetched,
    \* NewRemoteLogger: its level argument, and the UpdateLogLevel goroutines it
    \* started
    baseLevel, nLoops

breakerVars == <<state, failureCount, threshold, mu, sinceChecked, loopPc,
                 nProbing, nResetMid, pc, call, obs, returned, probed, tmp, fres,
                 retval, fwd, raced>>

pollerVars == <<remoteURL, levelFetchInterval, currentLevel, loggerLevel, pollPc,
                newLevel, fetchErr, tick, prevFetched, baseLevel, nLoops>>

vars == <<breakerVars, pollerVars>>

\* ---------------------------------------------------------- verb wrappers
NoCall == [method |-> Nil, path |-> Nil, queryParams |-> Nil, body |-> Nil,
           headers |-> Nil]

\* the arguments a caller passes to verb method m (those the method takes)
CallerArgs(m) ==
    [method |-> m,
     path |-> "path",
     queryParams |-> IF m \in {"Delete", "DeleteWithHeaders"} THEN Nil ELSE "queryParams",
     body |-> IF m \in {"Get", "GetWithHeaders"} THEN Nil ELSE "body",
     headers |-> IF m \in WithHeadersMethods THEN "headers" ELSE Nil]

\* the http.Method* constant each wrapper hands to doRequest
HTTPMethod(m) ==
    CASE m \in {"Get", "GetWithHeaders"} -> "GET"
      [] m \in {"Post", "PostWithHeaders"} -> "POST"
      [] m \in {"Patch", "PatchWithHeaders"} -> "PATCH"
      [] m \in {"Put", "PutWithHeaders"} -> "PUT"
      [] m \in {"Delete", "DeleteWithHeaders"} -> "DELETE"

\* the wrapper's call of doRequest(ctx, method, path, queryParams, body, headers)
Wrapper(c) ==
    [method |-> HTTPMethod(c.method), path |-> c.path, queryParams |-> c.queryParams,
     body |-> c.body, headers |-> c.headers]

\* mutant: the PUT case calls the PATCH method, and DELETE drops the body
Dispatch_Swapped(r) ==
    CASE r.method = "PUT" ->
           [fn |-> "PatchWithHeaders", path |-> r.path, queryParams |-> r.queryParams,
            body |-> r.body, headers |-> r.headers]
      [] r.method = "DELETE" ->
           [fn |-> "DeleteWithHeaders", path |-> r.path, queryParams |-> Nil,
            body |-> Nil, headers |-> r.headers]
      [] OTHER ->
           [fn |-> IF r.method = "GET" THEN "GetWithHeaders"
                   ELSE IF r.method = "POST" THEN "PostWithHeaders"
                   ELSE "PatchWithHeaders",
            path |-> r.path, queryParams |-> r.queryParams,
            body |-> IF r.method = "GET" THEN Nil ELSE r.body, headers |-> r.headers]

\* the switch of doRequest: the call of cb.HTTP made by the closure f
Dispatch(r) ==
    CASE r.method = "GET" ->
           [fn |-> "GetWithHeaders", path |-> r.path, queryParams |-> r.queryParams,
            body |-> Nil, headers |-> r.headers]
      [] r.method = "POST" ->
           [fn |-> "PostWithHeaders", path |-> r.path, queryParams |-> r.queryParams,
            body |-> r.body, headers |-> r.headers]
      [] r.method = "PATCH" ->
           [fn |-> "PatchWithHeaders", path |-> r.path, queryParams |-> r.queryParams,
            body |-> r.body, headers |-> r.headers]
      [] r.method = "PUT" ->
           [fn |-> "PutWithHeaders", path |-> r.path, queryParams |-> r.queryParams,
            body |-> r.body, headers |-> r.headers]
      [] r.method = "DELETE" ->
           [fn |-> "DeleteWithHeaders", path |-> r.path, queryParams |-> Nil,
            body |-> r.body, headers |-> r.headers]
      [] OTHER -> [fn |-> Nil, path |-> Nil, queryParams |-> Nil, body |-> Nil,
                   headers |-> Nil]

NoForward == [fn |-> Nil, path |-> Nil, queryParams |-> Nil, body |-> Nil,
              headers |-> Nil]

\* ------------------------------------------------------------- helpers
\* what a call did so far: found the breaker open in isOpen, the
\* time.Since(cb.lastChecked) tryCircuitRecovery read (-1: none), closed the
\* breaker in tryCircuitRecovery, its calls of a verb method and of HealthCheck
\* of the wrapped HTTP capability, and whether it wrote cb.state or
\* cb.failureCount (it writes cb.lastChecked only in openCircuit, after a write
\* of cb.failureCount)
NoObs == [open |-> FALSE, elapsed |-> -1, recovered |-> FALSE, verbs |-> 0,
          probes |-> 0, wrote |-> FALSE]
NoPair == [resp |-> Nil, err |-> Nil]
\* no operation completed in the last step
NoReturn == [kind |-> "none", obs |-> NoObs, resp |-> Nil, err |-> Nil, fres |-> NoPair, fcBefore |-> 0,
             raced |-> FALSE]

\* handleCircuitBreakerResult(result, err)
handleCircuitBreakerResult(r) ==
    IF r.err # Nil THEN [resp |-> Nil, err |-> r.err]
    ELSE IF r.resp \notin {Response, NilResponse}
         THEN [resp |-> Nil, err |-> ErrUnexpectedCircuitBreakerResultType]
         ELSE [resp |-> IF r.resp = NilResponse THEN Nil ELSE r.resp, err |-> Nil]

\* the statuses HealthCheck of the wrapped HTTP capability reports
serviceUp == "UP"
serviceDown == "DOWN"
Statuses == {serviceUp, serviceDown}

\* mutant: any answer of the probe counts as healthy
healthCheck_AnyStatus(status) == status \in Statuses

\* healthCheck: resp.Status == serviceUp
healthCheck(status) == status = serviceUp

\* mutant: a success leaves the failure count as it is
resetFailureCount_Kept == failureCount' = failureCount

\* resetFailureCount
resetFailureCount == failureCount' = 0

\* mutant: the cool-down is not looked at
CoolDownOver_Unchecked == sinceChecked >= 0

\* time.Since(cb.lastChecked) > cb.interval
CoolDownOver == sinceChecked > interval

\* cb.state == OpenState
IsOpenState == state = OpenState

\* mutant: the breaker opens when the threshold is reached, not exceeded
OverThreshold_Reached == failureCount >= threshold

\* cb.failureCount > cb.threshold
OverThreshold == failureCount > threshold

\* openCircuit
openCircuit == state' = OpenState /\ sinceChecked' = 0

\* resetCircuit, called with cb.mu held
resetCircuit == state' = ClosedState /\ failureCount' = 0

\* the two writes of a resetCircuit called without cb.mu
\* mutant: the switch back to the closed state is left out of resetCircuit
resetCircuitState_Missing == state' = state

resetCircuitState == state' = ClosedState
resetCircuitCount == failureCount' = 0

\* mutant: the lock is taken without waiting for its holder to release it
Lock_NotExclusive(c) == mu' = c

\* cb.mu.Lock() of executeWithCircuitBreaker
Lock(c) == mu = NoOne /\ mu' = c

\* mutant: the lock is not released
Unlock_Missing == mu' = mu

\* the deferred cb.mu.Unlock()
Unlock == mu' = NoOne

\* a write made without cb.mu races with the goroutine holding it
Unlocked == raced' = (raced \/ mu # NoOne)

\* doRequest returns r to its caller, having done o
Return(c, o, r) ==
    /\ pc' = [pc EXCEPT ![c] = "idle"]
    /\ call' = [call EXCEPT ![c] = NoCall]
    /\ obs' = [obs EXCEPT ![c] = NoObs]
    /\ returned' = [kind |-> "call", obs |-> o,
                    resp |-> r.resp, err |-> r.err,
                    fres |-> IF mu = c THEN fres ELSE NoPair,
                    fcBefore |-> IF mu = c THEN tmp ELSE 0,
                    raced |-> IF mu = c THEN raced ELSE FALSE]

\* a step that completes no operation, and one that makes no health probe
Running == returned' = NoReturn
NoProbe == probed' = "none"

LoopVars == <<loopPc, nProbing, nResetMid>>
LockedLocals == <<tmp, fres, retval, fwd>>

\* ------------------------------------------------------------- Init
\* NewCircuitBreaker
BreakerInit ==
    /\ state = ClosedState
    /\ failureCount = 0
    /\ threshold \in Thresholds
    /\ mu = NoOne
    /\ sinceChecked = interval + 1
    /\ loopPc = "wait"
    /\ nProbing = 0
    /\ nResetMid = 0
    /\ pc = [c \in Callers |-> "idle"]
    /\ call = [c \in Callers |-> NoCall]
    /\ obs = [c \in Callers |-> NoObs]
    /\ returned = NoReturn
    /\ probed = "none"
    /\ tmp = 0
    /\ fres = NoPair
    /\ retval = NoPair
    /\ fwd = NoForward
    /\ raced = FALSE

\* ------------------------------------------------------------- callers
\* a caller invokes a verb method, which calls doRequest
Start(c) ==
    /\ pc[c] = "idle"
    /\ pc' = [pc EXCEPT ![c] = "isOpen"]
    /\ Running
    /\ NoProbe
    /\ UNCHANGED <<state, failureCount, threshold, mu, sinceChecked, LoopVars, call,
                   obs, LockedLocals, raced>>

\* doRequest: cb.isOpen() (Lock, read cb.state, Unlock)
IsOpen(c) ==
    /\ pc[c] = "isOpen"
    /\ mu = NoOne
    /\ IF IsOpenState
       THEN /\ pc' = [pc EXCEPT ![c] = "recover"]
            /\ obs' = [obs EXCEPT ![c].open = TRUE]
       ELSE /\ pc' = [pc EXCEPT ![c] = "exec"]
            /\ obs' = obs
    /\ Running
    /\ NoProbe
    /\ UNCHANGED <<state, failureCount, threshold, mu, sinceChecked, LoopVars,
                   call, LockedLocals, raced>>

\* tryCircuitRecovery: time.Since(cb.lastChecked) > cb.interval, read without cb.mu
TryRecovery(c) ==
    /\ pc[c] = "recover"
    /\ IF CoolDownOver
       THEN /\ pc' = [pc EXCEPT ![c] = "recoverProbe"]
            /\ obs' = [obs EXCEPT ![c].elapsed = sinceChecked]
            /\ Running
            /\ UNCHANGED call
       ELSE Return(c, [obs[c] EXCEPT !.elapsed = sinceChecked],
                   [resp |-> Nil, err |-> ErrCircuitOpen])
    /\ NoProbe
    /\ UNCHANGED <<state, failureCount, threshold, mu, sinceChecked, LoopVars,
                   LockedLocals, raced>>

\* tryCircuitRecovery: cb.healthCheck and, when healthy, the first write of
\* resetCircuit, without cb.mu
RecoverProbe(c) ==
    /\ pc[c] = "recoverProbe"
    /\ \E status \in Statuses :
         /\ probed' = status
         /\ IF healthCheck(status)
            THEN
              /\ resetCircuitState
              /\ Unlocked
              /\ pc' = [pc EXCEPT ![c] = "recoverCount"]
              /\ obs' = [obs EXCEPT ![c].probes = @ + 1, ![c].wrote = TRUE]
              /\ Running
              /\ UNCHANGED call
            ELSE
              /\ Return(c, [obs[c] EXCEPT !.probes = @ + 1],
                        [resp |-> Nil, err |-> ErrCircuitOpen])
              /\ UNCHANGED <<state, raced>>
    /\ UNCHANGED <<failureCount, threshold, mu, sinceChecked, LoopVars, LockedLocals>>

\* tryCircuitRecovery: the second write of resetCircuit, without cb.mu
RecoverCount(c) ==
    /\ pc[c] = "recoverCount"
    /\ resetCircuitCount
    /\ Unlocked
    /\ pc' = [pc EXCEPT ![c] = "exec"]
    /\ obs' = [obs EXCEPT ![c].recovered = TRUE]
    /\ returned' = [NoReturn EXCEPT !.kind = "inlineRecovery"]
    /\ NoProbe
    /\ UNCHANGED <<state, threshold, mu, sinceChecked, LoopVars, call, LockedLocals>>

\* doRequest's switch on method, then executeWithCircuitBreaker: cb.mu.Lock()
\* and the check of cb.state; in the closed state the closure f calls the
\* wrapped HTTP capability. The verb method and its arguments are read here
\* for the first time, so they are drawn here.
ExecLock(c) ==
    /\ pc[c] = "exec"
    /\ Lock(c)
    /\ raced' = FALSE
    /\ IF IsOpenState
       THEN IF CoolDownOver
            THEN /\ pc' = [pc EXCEPT ![c] = "execProbe"]
                 /\ UNCHANGED <<retval, fwd, obs, call>>
            ELSE /\ pc' = [pc EXCEPT ![c] = "ret"]
                 /\ retval' = [resp |-> NilResponse, err |-> ErrCircuitOpen]
                 /\ UNCHANGED <<fwd, obs, call>>
       ELSE /\ pc' = [pc EXCEPT ![c] = "call"]
            /\ \E m \in Methods :
                 /\ call' = [call EXCEPT ![c] = CallerArgs(m)]
                 /\ fwd' = Dispatch(Wrapper(CallerArgs(m)))
            /\ obs' = [obs EXCEPT ![c].verbs = @ + 1]
            /\ UNCHANGED retval
    /\ Running
    /\ NoProbe
    /\ UNCHANGED <<state, failureCount, threshold, sinceChecked, LoopVars, tmp, fres>>

\* executeWithCircuitBreaker, open state after the cool-down: cb.healthCheck
\* and resetCircuit with cb.mu held, then return nil, nil
ExecProbe(c) ==
    /\ pc[c] = "execProbe"
    /\ \E status \in Statuses :
         /\ probed' = status
         /\ IF healthCheck(status)
            THEN /\ resetCircuit
                 /\ retval' = [resp |-> NilResponse, err |-> Nil]
                 /\ obs' = [obs EXCEPT ![c].probes = @ + 1, ![c].wrote = TRUE]
            ELSE /\ retval' = [resp |-> NilResponse, err |-> ErrCircuitOpen]
                 /\ obs' = [obs EXCEPT ![c].probes = @ + 1]
                 /\ UNCHANGED <<state, failureCount>>
    /\ pc' = [pc EXCEPT ![c] = "ret"]
    /\ Running
    /\ UNCHANGED <<threshold, mu, sinceChecked, LoopVars, call, tmp, fres, fwd, raced>>

\* f(ctx) returns; on success resetFailureCount, on failure handleFailure
\* reads cb.failureCount for its increment
CallReturn(c) ==
    /\ pc[c] = "call"
    /\ \E ok \in BOOLEAN :
         IF ok
         THEN /\ fres' = [resp |-> Response, err |-> Nil]
              /\ resetFailureCount
              /\ obs' = [obs EXCEPT ![c].wrote = TRUE]
              /\ pc' = [pc EXCEPT ![c] = "check82"]
              /\ UNCHANGED tmp
         ELSE /\ failureCount < threshold + MaxOver
              /\ fres' = [resp |-> NilResponse, err |-> ErrTransport]
              /\ tmp' = failureCount
              /\ pc' = [pc EXCEPT ![c] = "inc"]
              /\ UNCHANGED <<failureCount, obs>>
    /\ fwd' = NoForward
    /\ call' = [call EXCEPT ![c] = NoCall]
    /\ Running
    /\ NoProbe
    /\ UNCHANGED <<state, threshold, mu, sinceChecked, LoopVars, retval, raced>>

\* handleFailure: the write of cb.failureCount++
Inc(c) ==
    /\ pc[c] = "inc"
    /\ failureCount' = tmp + 1
    /\ obs' = [obs EXCEPT ![c].wrote = TRUE]
    /\ pc' = [pc EXCEPT ![c] = "check135"]
    /\ Running
    /\ NoProbe
    /\ UNCHANGED <<state, threshold, mu, sinceChecked, LoopVars, call,
                   LockedLocals, raced>>

\* handleFailure: if cb.failureCount > cb.threshold { cb.openCircuit() }
Check135(c) ==
    /\ pc[c] = "check135"
    /\ IF OverThreshold THEN openCircuit ELSE UNCHANGED <<state, sinceChecked>>
    /\ pc' = [pc EXCEPT ![c] = "check82"]
    /\ Running
    /\ NoProbe
    /\ UNCHANGED <<failureCount, threshold, mu, LoopVars, call, obs, LockedLocals,
                   raced>>

\* executeWithCircuitBreaker: if cb.failureCount > cb.threshold { openCircuit;
\* return nil, ErrCircuitOpen }; return result, err
Check82(c) ==
    /\ pc[c] = "check82"
    /\ IF OverThreshold
       THEN /\ openCircuit
            /\ retval' = [resp |-> NilResponse, err |-> ErrCircuitOpen]
       ELSE /\ retval' = fres
            /\ UNCHANGED <<state, sinceChecked>>
    /\ pc' = [pc EXCEPT ![c] = "ret"]
    /\ Running
    /\ NoProbe
    /\ UNCHANGED <<failureCount, threshold, mu, LoopVars, call, obs, tmp, fres, fwd,
                   raced>>

\* the deferred cb.mu.Unlock(), then doRequest unwraps the result and returns
Ret(c) ==
    /\ pc[c] = "ret"
    /\ Unlock
    /\ Return(c, obs[c], handleCircuitBreakerResult(retval))
    /\ NoProbe
    /\ tmp' = 0
    /\ fres' = NoPair
    /\ retval' = NoPair
    /\ fwd' = NoForward
    /\ raced' = FALSE
    /\ UNCHANGED <<state, failureCount, threshold, sinceChecked, LoopVars>>

\* ------------------------------------------------------- health loop
\* one clock step passes
AdvanceTime ==
    /\ sinceChecked <= interval
    /\ sinceChecked' = sinceChecked + 1
    /\ Running
    /\ NoProbe
    /\ UNCHANGED <<state, failureCount, threshold, mu, loopPc, nProbing, nResetMid,
                   pc, call, obs, LockedLocals, raced>>

\* startHealthChecks: for range ticker.C. The ticker's phase is independent
\* of lastChecked, so a tick may come at any time.
LoopRecv ==
    /\ loopPc = "wait"
    /\ loopPc' = "isOpen"
    /\ Running
    /\ NoProbe
    /\ UNCHANGED <<state, failureCount, threshold, mu, sinceChecked,
                   nProbing, nResetMid, pc, call, obs, LockedLocals, raced>>

\* startHealthChecks: if cb.isOpen() { go func() {...}() }
LoopIsOpen ==
    /\ loopPc = "isOpen"
    /\ mu = NoOne
    /\ nProbing' = IF IsOpenState /\ nProbing + nResetMid < MaxProbes
                   THEN nProbing + 1 ELSE nProbing
    /\ loopPc' = "wait"
    /\ Running
    /\ NoProbe
    /\ UNCHANGED <<state, failureCount, threshold, mu, sinceChecked, nResetMid, pc, call, obs, LockedLocals, raced>>

\* the loop's goroutine: cb.healthCheck and, when healthy, the first write of
\* resetCircuit, without cb.mu
ProbeReturn ==
    /\ nProbing > 0
    /\ nProbing' = nProbing - 1
    /\ \E status \in Statuses :
         /\ probed' = status
         /\ IF healthCheck(status)
            THEN /\ resetCircuitState
                 /\ Unlocked
                 /\ nResetMid' = nResetMid + 1
            ELSE UNCHANGED <<state, raced, nResetMid>>
    /\ Running
    /\ UNCHANGED <<failureCount, threshold, mu, sinceChecked, loopPc, pc, call, obs, LockedLocals>>

\* the loop's goroutine: the second write of resetCircuit, without cb.mu
ProbeResetCount ==
    /\ nResetMid > 0
    /\ nResetMid' = nResetMid - 1
    /\ resetCircuitCount
    /\ Unlocked
    /\ returned' = [NoReturn EXCEPT !.kind = "loopRecovery"]
    /\ NoProbe
    /\ UNCHANGED <<state, threshold, mu, sinceChecked, loopPc,
                   nProbing, pc, call, obs, LockedLocals>>

\* ------------------------------------------------------- level poller
DEBUG == "DEBUG"
INFO == "INFO"
WARN == "WARN"
ERROR == "ERROR"
Levels == {DEBUG, INFO, WARN, ERROR}

\* the order of the levels: DEBUG < INFO < WARN < ERROR
LevelRank(level) ==
    CASE level = DEBUG -> 1
      [] level = INFO -> 2
      [] level = WARN -> 3
      [] level = ERROR -> 4

\* Logger.Infof: the lines a logger at level min writes for one line logged at
\* INFO; the logger's level decides which lines are emitted
Infof(min) == IF LevelRank(INFO) >= LevelRank(min) THEN 1 ELSE 0

\* Logger.changeLevel: the level of the logger afterwards
changeLevel(level) == level

\* response.Data[0].Level["LOG_LEVEL"]: a level's name, another string, or
\* the empty string of a missing key
LevelStrings == {"DEBUG", "INFO", "WARN", "ERROR", "TRACE", ""}

\* GetLevelFromString: unrecognized strings map to the fallback level
GetLevelFromString(str) ==
    CASE str = "DEBUG" -> DEBUG
      [] str = "INFO" -> INFO
      [] str = "WARN" -> WARN
      [] str = "ERROR" -> ERROR
      [] OTHER -> INFO

\* what a remote fetch can come to: a transport error of Get, an error of
\* io.ReadAll, an error of json.Unmarshal, or a parsed response whose data
\* array holds the LOG_LEVEL strings of its entries
FetchErrors == {"transport error", "read error", "json error"}
FetchOutcomes ==
    [kind : FetchErrors, data : {<<>>}]
    \cup [kind : {"parsed"},
          data : {<<>>} \cup {<<x>> : x \in LevelStrings}
                 \cup {<<x, "ERROR">> : x \in LevelStrings}]

\* mutant: the first entry is read without looking at the length of data
fetchAndUpdateLogLevel_NoLengthCheck(o, level) ==
    IF o.kind \in FetchErrors
    THEN [level |-> level, err |-> o.kind]
    ELSE [level |-> GetLevelFromString(IF Len(o.data) > 0 THEN o.data[1] ELSE ""),
          err |-> Nil]

\* fetchAndUpdateLogLevel(remoteService, currentLevel)
fetchAndUpdateLogLevel(o, level) ==
    IF o.kind \in FetchErrors
    THEN [level |-> level, err |-> o.kind]
    ELSE IF Len(o.data) > 0
         THEN [level |-> GetLevelFromString(o.data[1]), err |-> Nil]
         ELSE [level |-> level, err |-> Nil]

\* UpdateLogLevel: r.currentLevel != newLevel
LevelChanged(cur, new) == cur # new

\* strconv.Atoi on a string of digits and letters, given as its characters
Digits == <<"0", "1", "2", "3", "4", "5", "6", "7", "8", "9">>
DigitValue(ch) == CHOOSE d \in 0 .. 9 : Digits[d + 1] = ch
IsDigit(ch) == \E d \in 1 .. 10 : Digits[d] = ch
RECURSIVE AtoiDigits(_, _)
AtoiDigits(str, acc) ==
    IF str = <<>> THEN acc
    ELSE AtoiDigits(Tail(str), 10 * acc + DigitValue(Head(str)))
Atoi(str) ==
    IF str # <<>> /\ \A i \in 1 .. Len(str) : IsDigit(str[i])
    THEN [value |-> AtoiDigits(str, 0), err |-> Nil]
    ELSE [value |-> 0, err |-> "invalid syntax"]

\* the loggerFetchInterval strings constructed with
IntervalStrings == {<<>>, <<"x">>, <<"5">>, <<"3", "0">>}
\* the remoteConfigURL strings constructed with
URLs == {"", "http://remote"}

NoTick == [done |-> TRUE, outcome |-> "none", before |-> Nil, loggerBefore |-> Nil,
           fetched |-> Nil, err |-> Nil, calls |-> 0, lines |-> 0]

\* mutant: the poll loop is started whatever the URL is
NewRemoteLogger_AlwaysPolls(level, url, fetchInterval) ==
    /\ levelFetchInterval =
         (IF Atoi(fetchInterval).err # Nil THEN 15 ELSE Atoi(fetchInterval).value)
    /\ remoteURL = url
    /\ loggerLevel = level
    /\ currentLevel = level
    /\ baseLevel = level
    /\ nLoops = 1
    /\ pollPc = "wait"
    /\ newLevel = Nil
    /\ fetchErr = Nil
    /\ tick = NoTick
    /\ prevFetched = Nil

\* NewRemoteLogger(level, remoteConfigURL, loggerFetchInterval)
NewRemoteLogger(level, url, fetchInterval) ==
    /\ baseLevel = level
    /\ nLoops = (IF url # "" THEN 1 ELSE 0)
    /\ levelFetchInterval =
         (IF Atoi(fetchInterval).err # Nil THEN 15 ELSE Atoi(fetchInterval).value)
    /\ remoteURL = url
    /\ loggerLevel = level
    /\ currentLevel = level
    /\ pollPc = IF url # "" THEN "wait" ELSE "off"
    /\ newLevel = Nil
    /\ fetchErr = Nil
    /\ tick = NoTick
    /\ prevFetched = Nil

\* UpdateLogLevel, a tick: fetchAndUpdateLogLevel(remoteService, r.currentLevel)
PollFetch ==
    /\ pollPc = "wait"
    /\ \E o \in FetchOutcomes :
         LET r == fetchAndUpdateLogLevel(o, currentLevel) IN
         /\ newLevel' = r.level
         /\ fetchErr' = r.err
         /\ tick' = [done |-> FALSE,
                     outcome |-> IF o.kind = "parsed" /\ o.data = <<>>
                                 THEN "empty data" ELSE o.kind,
                     before |-> currentLevel, loggerBefore |-> loggerLevel,
                     fetched |-> r.level, err |-> r.err, calls |-> 0, lines |-> 0]
    /\ prevFetched' = IF tick.outcome # "none" /\ tick.err = Nil
                      THEN tick.fetched ELSE prevFetched
    /\ pollPc' = "fetched"
    /\ UNCHANGED <<remoteURL, levelFetchInterval, currentLevel, loggerLevel,
                   baseLevel, nLoops>>

\* mutant: the fetched level is not applied to the logger
PollApply_NoChange ==
    /\ pollPc = "fetched"
    /\ IF fetchErr = Nil
       THEN /\ pollPc' = "applied"
            /\ UNCHANGED tick
       ELSE /\ pollPc' = "wait"
            /\ tick' = [tick EXCEPT !.done = TRUE]
    /\ UNCHANGED <<remoteURL, levelFetchInterval, currentLevel, loggerLevel, newLevel,
                   fetchErr, prevFetched, baseLevel, nLoops>>

\* UpdateLogLevel: if err == nil { r.changeLevel(newLevel) ...
PollApply ==
    /\ pollPc = "fetched"
    /\ IF fetchErr = Nil
       THEN /\ loggerLevel' = changeLevel(newLevel)
            /\ pollPc' = "applied"
            /\ UNCHANGED tick
       ELSE /\ pollPc' = "wait"
            /\ tick' = [tick EXCEPT !.done = TRUE]
            /\ UNCHANGED loggerLevel
    /\ UNCHANGED <<remoteURL, levelFetchInterval, currentLevel, newLevel, fetchErr,
                   prevFetched, baseLevel, nLoops>>

\* UpdateLogLevel: if r.currentLevel != newLevel { r.Infof(...) ...
PollCompare ==
    /\ pollPc = "applied"
    /\ IF LevelChanged(currentLevel, newLevel)
       THEN /\ tick' = [tick EXCEPT !.calls = @ + 1,
                                    !.lines = @ + Infof(loggerLevel)]
            /\ pollPc' = "logged"
       ELSE /\ tick' = [tick EXCEPT !.done = TRUE]
            /\ pollPc' = "wait"
    /\ UNCHANGED <<remoteURL, levelFetchInterval, currentLevel, loggerLevel,
                   newLevel, fetchErr, prevFetched, baseLevel, nLoops>>

\* UpdateLogLevel: r.currentLevel = newLevel
PollStore ==
    /\ pollPc = "logged"
    /\ currentLevel' = newLevel
    /\ tick' = [tick EXCEPT !.done = TRUE]
    /\ pollPc' = "wait"
    /\ UNCHANGED <<remoteURL, levelFetchInterval, loggerLevel, newLevel, fetchErr,
                   prevFetched, baseLevel, nLoops>>

\* ------------------------------------------------------- specifications
\* the breaker, beside a logger with no remote URL
Init ==
    /\ BreakerInit
    /\ NewRemoteLogger(INFO, "", <<>>)

Next ==
    \/ \E c \in Callers :
         \/ Start(c) /\ UNCHANGED pollerVars
         \/ IsOpen(c) /\ UNCHANGED pollerVars
         \/ TryRecovery(c) /\ UNCHANGED pollerVars
         \/ RecoverProbe(c) /\ UNCHANGED pollerVars
         \/ RecoverCount(c) /\ UNCHANGED pollerVars
         \/ ExecLock(c) /\ UNCHANGED pollerVars
         \/ ExecProbe(c) /\ UNCHANGED pollerVars
         \/ CallReturn(c) /\ UNCHANGED pollerVars
         \/ Inc(c) /\ UNCHANGED pollerVars
         \/ Check135(c) /\ UNCHANGED pollerVars
         \/ Check82(c) /\ UNCHANGED pollerVars
         \/ Ret(c) /\ UNCHANGED pollerVars
    \/ AdvanceTime /\ UNCHANGED pollerVars
    \/ LoopRecv /\ UNCHANGED pollerVars
    \/ LoopIsOpen /\ UNCHANGED pollerVars
    \/ ProbeReturn /\ UNCHANGED pollerVars
    \/ ProbeResetCount /\ UNCHANGED pollerVars

Spec == Init /\ [][Next]_vars

\* the level poller, beside an idle breaker
PollerInit ==
    /\ BreakerInit
    /\ threshold = 0
    /\ \E level \in Levels, url \in URLs, fetchInterval \in IntervalStrings :
         NewRemoteLogger(level, url, fetchInterval)

PollerNext ==
    \/ PollFetch /\ UNCHANGED breakerVars
    \/ PollApply /\ UNCHANGED breakerVars
    \/ PollCompare /\ UNCHANGED breakerVars
    \/ PollStore /\ UNCHANGED breakerVars

PollerSpec == PollerInit /\ [][PollerNext]_vars

\* the steps of caller c that wait for nothing: the wrapped transport and the
\* health probe return, and a running goroutine goes on running
Proceed(c) ==
    /\ \/ TryRecovery(c)
       \/ RecoverProbe(c)
       \/ RecoverCount(c)
       \/ ExecProbe(c)
       \/ CallReturn(c)
       \/ Inc(c)
       \/ Check135(c)
       \/ Check82(c)
       \/ Ret(c)
    /\ UNCHANGED pollerVars

\* the steps of caller c that take cb.mu
Acquire(c) == (IsOpen(c) \/ ExecLock(c)) /\ UNCHANGED pollerVars

\* Go's scheduler runs every runnable goroutine, and sync.Mutex hands the lock
\* to a goroutine that has waited (starvation mode): a goroutine that finds
\* cb.mu free again and again gets it
Fairness ==
    /\ \A c \in Callers :
         /\ WF_vars(Proceed(c))
         /\ SF_vars(Acquire(c))
    /\ SF_vars(LoopIsOpen /\ UNCHANGED pollerVars)

\* the liveness check configures the threshold of the spec's scenario minus one
LiveInit == Init /\ threshold = 1

LiveSpec == LiveInit /\ [][Next]_vars /\ Fairness

\* the ticker keeps sending ticks, and the goroutines the loop starts run:
\* their health probe returns and resetCircuit completes
LoopFairness ==
    /\ WF_vars(LoopRecv /\ UNCHANGED pollerVars)
    /\ WF_vars(ProbeReturn /\ UNCHANGED pollerVars)
    /\ WF_vars(ProbeResetCount /\ UNCHANGED pollerVars)

LoopLiveSpec == LiveInit /\ [][Next]_vars /\ Fairness /\ LoopFairness

\* =========================================================== properties

\* the transport outcome of the call that just returned, as doRequest hands
\* it on when nothing intervenes
TransportOutcome == handleCircuitBreakerResult(returned.fres)

\* a verb call has just returned after its transport call failed, and no write
\* without cb.mu fell into its locked section
FailedAlone ==
    /\ returned.kind = "call"
    /\ returned.obs.verbs = 1
    /\ returned.fres.err = ErrTransport
    /\ ~returned.raced

LeavesOpen == state = OpenState /\ state' = ClosedState

\* C2 (as claimed): the breaker leaves the open state only in a step in which
\* the time since lastChecked has reached the interval and a probe was healthy.
C2_LeavesOpenAfterInterval ==
    [][LeavesOpen => (probed' = serviceUp /\ sinceChecked >= interval)]_vars

\* C2 (amended): the breaker leaves the open state only in a step whose health
\* probe reported up: in tryCircuitRecovery after that call read a time since
\* lastChecked above the interval, in executeWithCircuitBreaker with the time
\* above the interval, or in a goroutine of the health loop, whatever the time;
\* and a call that found the breaker open and did not close it itself returns
\* ErrCircuitOpen.
C2_LeavesOpenByHealthyProbe ==
    /\ [][LeavesOpen =>
            /\ probed' = serviceUp
            /\ \/ nProbing' = nProbing - 1
               \/ \E c \in Callers :
                    /\ pc[c] = "recoverProbe"
                    /\ pc'[c] = "recoverCount"
                    /\ obs[c].elapsed > interval
               \/ \E c \in Callers :
                    /\ pc[c] = "execProbe"
                    /\ pc'[c] = "ret"
                    /\ sinceChecked > interval]_vars
    /\ [](returned.kind = "call" /\ returned.obs.open /\ ~returned.obs.recovered
            => returned.err = ErrCircuitOpen /\ returned.obs.verbs = 0)

\* a goroutine of the health loop has closed the breaker before the interval
\* had passed since it opened
C2_Witness ==
    /\ probed = serviceUp
    /\ state = ClosedState
    /\ nResetMid > 0
    /\ sinceChecked < interval

\* C3: a call that finds the breaker open with less than the interval elapsed
\* since lastChecked returns ErrCircuitOpen and calls neither a verb method nor
\* HealthCheck of the wrapped HTTP capability.
C3_RejectsDuringCoolDown ==
    (/\ returned.kind = "call"
     /\ returned.obs.open
     /\ returned.obs.elapsed \in 0 .. (interval - 1))
    => /\ returned.err = ErrCircuitOpen
       /\ returned.resp = Nil
       /\ returned.obs.verbs = 0
       /\ returned.obs.probes = 0

C3_Witness ==
    /\ returned.kind = "call"
    /\ returned.obs.open
    /\ returned.obs.elapsed = interval - 1
    /\ returned.err = ErrCircuitOpen

\* C4 (as claimed, for thresholds >= 0): a call that closed the breaker in
\* tryCircuitRecovery issues the original request to the wrapped transport in
\* that same invocation, under every interleaving, and returns its outcome
\* (the response of a successful request).
C4_RecoveredCallForwards ==
    (threshold >= 0 /\ returned.kind = "call" /\ returned.obs.recovered)
    => /\ returned.obs.verbs = 1
       /\ returned.fres.err = Nil =>
            (returned.resp = Response /\ returned.err = Nil)

\* a verb call has just returned after its transport call succeeded
Succeeded ==
    /\ returned.kind = "call"
    /\ returned.obs.verbs = 1
    /\ returned.fres = [resp |-> Response, err |-> Nil]

\* what C5 says of a call whose transport call succeeded
SuccessResets ==
    /\ failureCount = 0
    /\ state = ClosedState
    /\ returned.resp = Response
    /\ returned.err = Nil

\* C5 (as claimed): for any configured integer threshold, a call whose
\* transport call succeeds leaves failureCount 0 and the breaker closed and
\* returns the transport's response with no error.
C5_SuccessResetsAnyThreshold == Succeeded => SuccessResets

\* C5 (amended): the same for any configured threshold >= 0.
C5_SuccessResets == (threshold >= 0 /\ Succeeded) => SuccessResets

\* a success after a failure was counted
C5_Witness ==
    /\ Succeeded
    /\ threshold >= 1
    /\ SuccessResets

\* a state-mutating operation has just completed: a request that reached the
\* transport, an inline recovery, a recovery by the health loop
MutationCompleted ==
    \/ returned.kind \in {"inlineRecovery", "loopRecovery"}
    \/ returned.kind = "call" /\ returned.obs.verbs = 1

\* C6 (as claimed, for thresholds >= 0): right after any state-mutating
\* operation completes, failureCount > threshold implies the open state and
\* the closed state implies failureCount <= threshold.
C6_ThresholdInvariant ==
    (threshold >= 0 /\ MutationCompleted)
    => /\ failureCount > threshold => state = OpenState
       /\ state = ClosedState => failureCount <= threshold

\* the method of the wrapped HTTP capability of the same verb as verb method m
SameVerbMethod(m) ==
    CASE m \in {"Get", "GetWithHeaders"} -> "GetWithHeaders"
      [] m \in {"Post", "PostWithHeaders"} -> "PostWithHeaders"
      [] m \in {"Put", "PutWithHeaders"} -> "PutWithHeaders"
      [] m \in {"Patch", "PatchWithHeaders"} -> "PatchWithHeaders"
      [] m \in {"Delete", "DeleteWithHeaders"} -> "DeleteWithHeaders"

\* C7: a verb method that forwards calls the wrapped capability once, with a
\* method of the same verb and the caller's path, query parameters, body and
\* headers as they were passed; no call forwards more than once.
C7_ForwardsUnmodified ==
    /\ \A c \in Callers :
         pc[c] = "call" =>
            /\ call[c].method \in Methods
            /\ fwd.fn = SameVerbMethod(call[c].method)
            /\ fwd.path = call[c].path
            /\ fwd.queryParams = call[c].queryParams
            /\ fwd.body = call[c].body
            /\ fwd.headers = call[c].headers
            /\ obs[c].verbs = 1
    /\ \A c \in Callers : obs[c].verbs <= 1
    /\ returned.obs.verbs <= 1

C7_Witness ==
    \E c \in Callers :
        /\ pc[c] = "call"
        /\ call[c].method = "Put"
        /\ fwd.fn = "PutWithHeaders"
        /\ fwd.body = "body"
        /\ fwd.headers = Nil

\* C8: with the wrapped transport and the health probe always returning, every
\* verb call returns and every tick the health loop received is processed.
C8_EveryCallReturns ==
    /\ \A c \in Callers : (pc[c] # "idle") ~> (pc[c] = "idle")
    /\ (loopPc = "isOpen") ~> (loopPc = "wait")

\* one caller holds cb.mu inside the transport call while the other caller
\* and the health loop wait for it
C8_Witness ==
    \E c, d \in Callers :
        /\ c # d
        /\ mu = c
        /\ pc[c] = "call"
        /\ pc[d] \in {"isOpen", "exec"}
        /\ loopPc = "isOpen"

\* a tick of the poll loop is complete
TickDone == tick.done /\ tick.outcome # "none"

\* C9: a successful tick emits the transition line exactly when the fetched
\* level differs from the stored currentLevel, after which currentLevel is the
\* fetched level; a level fetched again on the next successful tick emits
\* nothing, so that a level fetched twice in a row is logged once.
C9_LogsExactlyOnChange ==
    (TickDone /\ tick.err = Nil) =>
        /\ tick.lines = (IF tick.fetched # tick.before THEN 1 ELSE 0)
        /\ currentLevel = tick.fetched
        /\ prevFetched = tick.fetched => tick.lines = 0

\* C10: a tick whose fetch fails in transport, in reading the body or in JSON
\* parsing, or whose response has an empty data array, leaves currentLevel and
\* the logger's level as they were, logs no transition, and leaves the loop
\* waiting for its next tick.
C10_FailedTickKeepsLevel ==
    (TickDone /\ tick.outcome \in FetchErrors \cup {"empty data"}) =>
        /\ currentLevel = tick.before
        /\ loggerLevel = tick.loggerBefore
        /\ tick.calls = 0
        /\ tick.lines = 0
        /\ pollPc = "wait"
        /\ ENABLED PollFetch

\* a tick with an empty data array, after the level had moved off INFO
C10_Witness ==
    /\ TickDone
    /\ tick.outcome = "empty data"
    /\ currentLevel = WARN
    /\ loggerLevel = WARN

\* C11: a poller constructed with an empty URL starts no poll loop, makes no
\* fetch, and keeps its stored level and its logger's level at the level it
\* was constructed with; one constructed with a non-empty URL starts exactly
\* one poll loop.
C11_EmptyURLNeverPolls ==
    /\ remoteURL = "" =>
         /\ nLoops = 0
         /\ pollPc = "off"
         /\ tick = NoTick
         /\ currentLevel = baseLevel
         /\ loggerLevel = baseLevel
    /\ remoteURL # "" => nLoops = 1

\* a poller constructed at WARN with an empty URL and an unparsable interval
C11_Witness ==
    /\ remoteURL = ""
    /\ baseLevel = WARN
    /\ currentLevel = WARN
    /\ levelFetchInterval = 15
    /\ nLoops = 0

\* a step writes cb.state or cb.failureCount (a changed value), or
\* cb.lastChecked (the time since it starts again)
WritesBreaker ==
    \/ state' # state
    \/ failureCount' # failureCount
    \/ sinceChecked' < sinceChecked

\* the step is one of the goroutine holding cb.mu
StepOfLockHolder == mu \in Callers /\ pc'[mu] # pc[mu]

\* C12: every step that writes state, failureCount or lastChecked is a step of
\* the goroutine that holds cb.mu (shown for the thresholds from 0 up).
C12_WritesUnderLock ==
    [][threshold >= 0 /\ WritesBreaker => StepOfLockHolder]_vars

\* the positions of executeWithCircuitBreaker from the check of cb.state to the
\* return: the probe, the wrapped request, and the updates after it
LockedPcs == {"execProbe", "call", "inc", "check135", "check82", "ret"}

\* caller c's verb request to the wrapped HTTP capability is in flight
InFlight(c) == pc[c] = "call"

\* C13: at most one verb request to the wrapped capability is in flight, the
\* caller it belongs to holds cb.mu, and a caller inside
\* executeWithCircuitBreaker holds cb.mu at every step from the state check until
\* its return.
C13_Serialized ==
    /\ [](\A c, d \in Callers : InFlight(c) /\ InFlight(d) => c = d)
    /\ [](\A c \in Callers : pc[c] \in LockedPcs => mu = c)
    /\ [](fwd # NoForward => mu \in Callers /\ InFlight(mu))
    /\ [][\A c \in Callers :
            pc[c] \in LockedPcs /\ pc'[c] \in LockedPcs => mu' = c]_vars

\* one caller's request is in flight while the other waits for cb.mu
C13_Witness ==
    /\ InFlight("c1")
    /\ pc["c2"] = "exec"
    /\ mu = "c1"
    /\ fwd.fn = "PostWithHeaders"

\* no foreground request is under way
AllIdle == \A c \in Callers : pc[c] = "idle"

\* C14: from a state where the breaker is Open and no request is under way,
\* unless a request is started or a probe reports unhealthy, the health loop
\* reaches the Closed state with failureCount = 0; a tick can be received and
\* processed while a goroutine of an earlier tick is still in flight, and
\* every received tick is processed.
C14_LoopRecovers ==
    /\ (state = OpenState /\ AllIdle)
          ~> \/ state = ClosedState /\ failureCount = 0
             \/ probed = serviceDown
             \/ ~AllIdle
    /\ [](loopPc = "wait" => ENABLED LoopRecv)
    /\ [](loopPc = "isOpen" /\ mu = NoOne => ENABLED LoopIsOpen)
    /\ (loopPc = "isOpen" /\ nProbing + nResetMid > 0) ~> (loopPc = "wait")

\* the loop's goroutine has closed the breaker and reset the count, with no
\* request under way, while the next tick was already received
C14_Witness ==
    /\ returned.kind = "loopRecovery"
    /\ state = ClosedState
    /\ failureCount = 0
    /\ AllIdle
    /\ loopPc = "isOpen"

\* the step makes a recovery probe: inline (tryCircuitRecovery or
\* executeWithCircuitBreaker) or in a goroutine of the health loop
ProbeStep == probed' \in Statuses

\* the step takes the breaker from Closed to Open
OpeningStep == state = ClosedState /\ state' = OpenState

\* C15: lastChecked is the time of the latest transition into Open or recovery
\* probe: a step that opens the breaker or makes a recovery probe, healthy or
\* not, leaves the time since lastChecked at zero (shown for the thresholds
\* from 0 up).
C15_ProbesRecordTime ==
    [][threshold >= 0 /\ (OpeningStep \/ ProbeStep) => sinceChecked' = 0]_vars

\* a verb call has returned in the last step
CallCompleted == returned.kind = "call"

\* the call returned the response the wrapped transport produced for it
ReturnedTransportResponse ==
    /\ returned.err = Nil
    /\ returned.resp = Response
    /\ returned.fres = [resp |-> Response, err |-> Nil]

\* the call returned the error the wrapped transport produced for it
ReturnedTransportError ==
    /\ returned.err = ErrTransport
    /\ returned.resp = Nil
    /\ returned.fres.err = ErrTransport

\* C16: no verb call returns ErrUnexpectedCircuitBreakerResultType; every call
\* returns the transport's response, the transport's error or ErrCircuitOpen
\* (shown for the thresholds from 0 up).
C16_ResultTypeUnreachable ==
    (threshold >= 0 /\ CallCompleted) =>
        /\ returned.err # ErrUnexpectedCircuitBreakerResultType
        /\ \/ ReturnedTransportResponse
           \/ ReturnedTransportError
           \/ returned.err = ErrCircuitOpen /\ returned.resp = Nil

\* C17: a verb call that returns no error has called the wrapped transport
\* exactly once and returns the response the transport produced, never an
\* empty response (shown for the thresholds from 0 up).
C17_NoErrorMeansResponse ==
    (threshold >= 0 /\ CallCompleted /\ returned.err = Nil) =>
        /\ returned.resp # Nil
        /\ returned.obs.verbs = 1
        /\ ReturnedTransportResponse

\* C18: with a threshold T >= 0, failureCount stays within 0 .. T + 1 in every
\* reachable state.
C18_FailureCountBounded ==
    threshold >= 0 => failureCount \in 0 .. (threshold + 1)

\* the call was rejected with ErrCircuitOpen without reaching the wrapped
\* transport: the breaker was Open and the cool-down not over, or the recovery
\* probe not healthy
RejectedAsOpen ==
    /\ CallCompleted
    /\ returned.err = ErrCircuitOpen
    /\ returned.obs.verbs = 0

\* C19: a call rejected because the breaker was Open has written neither state
\* nor failureCount nor lastChecked, and no step changes the threshold (the
\* interval has no writer).
C19_RejectedCallWritesNothing ==
    /\ [](threshold >= 0 /\ RejectedAsOpen => ~returned.obs.wrote)
    /\ [][threshold' = threshold]_vars

\* C20: the logger's level equals the stored currentLevel at construction and
\* after every completed tick; within a successful tick the fetched level is the
\* logger's level before the transition line is logged and before
\* currentLevel is updated.
C20_LoggerLevelFollows ==
    /\ pollPc \in {"off", "wait"} => loggerLevel = currentLevel
    /\ pollPc = "applied" =>
         /\ loggerLevel = newLevel
         /\ tick.calls = 0
         /\ currentLevel = tick.before
    /\ pollPc = "logged" =>
         /\ loggerLevel = newLevel
         /\ tick.calls = 1
         /\ currentLevel = tick.before

\* the transition from INFO to ERROR has been logged, by a logger already at
\* ERROR, and currentLevel is not yet updated
C20_Witness ==
    /\ pollPc = "logged"
    /\ loggerLevel = ERROR
    /\ currentLevel = INFO
    /\ tick.calls = 1

====
